---- MODULE Spec2Model ----
(***************************************************************************)
(* Model of the bad-apple-asm encoding pipeline:                           *)
(*   process_frames.py  (raster -> RLE rows),                              *)
(*   emit_segments.py   (shift aligner, base consensus, delta encoder),    *)
(*   emit_bitpacked.py  (bit packer and its ARMLite unpacking loop).       *)
(* Pixel sets are sets of linear indices y*w + x.  Python lists are        *)
(* sequences (1-based here, 0-based in the source); loop counters keep the *)
(* source's 0-based values.                                                *)
(***************************************************************************)
EXTENDS Integers, Sequences, FiniteSets, TLC

VARIABLES
    pc,               \* position of the program being run
    w, h,             \* frame width and height
    prev_set, cur_set, max_shift,   \* arguments of a best_horizontal_shift call
    result, result2,  \* (best_dx, best_overlap) of the first and the second call
    frames,           \* emit_segment / emit_segment_bitpacked: the loaded pixel sets
    base_frac,        \* emit_segment: <<numerator, denominator>> of base_frac
    i,                \* emit_segment: loop counter (0-based as in the source)
    shifts, aligned_sets, base_pixels, base_offsets,
    additions_all, additions_index, additions_count,
    removals_all, removals_index, removals_count,
    raster,           \* process_frames: luminance of pixel <<x, y>> (`pix[x, y]`)
    threshold,        \* process_frames: the threshold argument
    rows,             \* the mask record's list of rows, each a list of <<start, length>>
    total_black,      \* the mask record's 'black' count
    row,              \* the row loop counter of the encoder, then of load_rle
    rle_set,          \* load_rle: the set `s`
    bp_frames,        \* emit_segment_bitpacked: the list `frames` of loaded pixel sets
    frames_data,      \* the bytes written after the label frames_data
    reg,              \* ARMLite registers R0 .. R12 of the unpacking program
    screen,           \* byte offsets from .PixelScreen of the cells stored so far
    stored,           \* pixel indices stored since the current frame's loop began
    prog,             \* the script whose main is run
    files,            \* main / analyze_masks: the sorted list `files`, each file as its pixel set
    segment_size,     \* main: args.segment_size
    file_i,           \* main / analyze_masks: the loop variable `i` of the loop over files
    acc,              \* analyze_masks: total_black, total_diff, shift_matches, prev_set
    stats,            \* analyze_masks: stats['frames'] and stats['summary']
    out_files,        \* what has been written to the file system
    exit_status,      \* <<>> while running, then <<the value handed to exit()>>
    sreg,             \* ARMLite registers R0 .. R20 of the segment program
    mem,              \* the words of the segment program's .DATA section
    cells,            \* colour of the screen cells stored since the last clear, by byte offset
    base_cells        \* byte offsets stored by base_loop in the current frame

segVars == <<frames, base_frac, i, shifts, aligned_sets, base_pixels, base_offsets,
             additions_all, additions_index, additions_count,
             removals_all, removals_index, removals_count>>
callVars == <<prev_set, cur_set, max_shift, result, result2>>
rleVars == <<raster, threshold, rows, total_black, row, rle_set>>
packVars == <<bp_frames, frames_data, reg, screen, stored>>
mainVars == <<prog, files, segment_size, file_i, acc, stats, out_files, exit_status>>
runVars == <<sreg, mem, cells, base_cells>>
vars == <<pc, w, h, callVars, segVars, rleVars, packVars, mainVars, runVars>>

\* what the actions of one program leave alone
notCall == <<segVars, rleVars, packVars, mainVars, runVars>>
notSeg == <<callVars, rleVars, packVars, mainVars, runVars>>
notRle == <<callVars, segVars, packVars, mainVars, runVars>>
notPack == <<callVars, segVars, rleVars, mainVars, runVars>>
notMain == <<callVars, segVars, rleVars, packVars, runVars>>
notRun == <<callVars, rleVars, packVars, mainVars>>

----------------------------------------------------------------------------
(* Bounds of the model *)

\* largest max_shift handed to a stand-alone best_horizontal_shift call
MaxK == 2
\* largest number of frames in a segment
MaxN == 2

\* frame sizes <<w, h>> of the stand-alone aligner calls
CallDims == {<<4, 1>>, <<2, 2>>, <<3, 2>>}
\* frame sizes <<w, h>> of the segments
SegDims == {<<3, 1>>, <<2, 2>>}
\* base_frac values <<numerator, denominator>>: 0.1, 0.5, 0.9 (the default), 1.0.
\* For these and up to 4 frames int(base_frac * n) in floating point is the exact floor.
BaseFracs == {<<1, 10>>, <<5, 10>>, <<9, 10>>, <<10, 10>>}
\* base_frac before emit_segment reads it
NotRead == <<0, 0>>

\* max_shift of the call in emit_segment
SegMaxShift == 64

Pixels(ww, hh) == 0 .. (ww * hh - 1)

----------------------------------------------------------------------------
(* Helpers for Python built-ins *)

Min(S) == CHOOSE m \in S : \A e \in S : m <= e

Abs(v) == IF v < 0 THEN -v ELSE v

\* sorted(S): the elements of a set of integers in ascending order
RECURSIVE Sorted(_)
Sorted(S) == IF S = {} THEN <<>> ELSE <<Min(S)>> \o Sorted(S \ {Min(S)})

\* every order in which a dict with key set K can be iterated
Orders(K) == {f \in [1 .. Cardinality(K) -> K] : \A a, b \in DOMAIN f : f[a] = f[b] => a = b}

RECURSIVE SumSeq(_)
SumSeq(s) == IF s = <<>> THEN 0 ELSE Head(s) + SumSeq(Tail(s))

----------------------------------------------------------------------------
(* emit_segments.py: best_horizontal_shift *)

\* the dict built by `rows.setdefault(y, set()).add(x)`: row -> set of columns
RowBuckets(S, ww) ==
    [y \in {idx \div ww : idx \in S} |-> {idx % ww : idx \in {j \in S : j \div ww = y}}]

\* `shifted = {x - dx for x in cur_xs if 0 <= x - dx < w}`
ShiftedRowPlus(cur_xs, dx, ww) == {x + dx : x \in {c \in cur_xs : 0 <= c + dx /\ c + dx < ww}}
ShiftedRow(cur_xs, dx, ww) == {x - dx : x \in {c \in cur_xs : 0 <= c - dx /\ c - dx < ww}}

\* the inner `for y, cur_xs in cur_rows.items()` loop, rows visited in `order`
RECURSIVE RowOverlap(_, _, _, _, _, _)
RowOverlap(prev_rows, cur_rows, order, k, dx, ww) ==
    IF k > Len(order) THEN 0
    ELSE LET y == order[k]
             here == IF y \notin DOMAIN prev_rows \/ prev_rows[y] = {}
                     THEN 0
                     ELSE Cardinality(ShiftedRow(cur_rows[y], dx, ww) \cap prev_rows[y])
         IN  here + RowOverlap(prev_rows, cur_rows, order, k + 1, dx, ww)

\* `if overlap > best_overlap`
ImprovesLoose(overlap, best_overlap) == overlap >= best_overlap
Improves(overlap, best_overlap) == overlap > best_overlap

\* the last dx of `range(-max_shift, max_shift + 1)`
LastShiftWide(k) == k + 1
LastShift(k) == k

\* the body of the `for dx in ...` loop: best == <<best_dx, best_overlap>> before and after
ShiftStep(prev_rows, cur_rows, order, ww, dx, best) ==
    LET overlap == RowOverlap(prev_rows, cur_rows, order, 1, dx, ww)
    IN  IF Improves(overlap, best[2]) THEN <<dx, overlap>> ELSE best

\* the `for dx in range(first, last + 1)` loop, dx ascending (the range is halved to keep
\* the evaluation shallow; the steps run in the same order)
RECURSIVE ShiftScan(_, _, _, _, _, _, _)
ShiftScan(prev_rows, cur_rows, order, ww, first, last, best) ==
    IF first > last THEN best
    ELSE IF first = last THEN ShiftStep(prev_rows, cur_rows, order, ww, first, best)
    ELSE LET mid == (first + last) \div 2
             half == ShiftScan(prev_rows, cur_rows, order, ww, first, mid, best)
         IN  \* best_overlap is never negative: the test only makes `half` be computed here
             IF half[2] >= 0
             THEN ShiftScan(prev_rows, cur_rows, order, ww, mid + 1, last, half)
             ELSE half

\* best_horizontal_shift(prev_set, cur_set, w, max_shift), cur_rows iterated in `order`
best_horizontal_shift(ps, cs, ww, k, order) ==
    ShiftScan(RowBuckets(ps, ww), RowBuckets(cs, ww), order, ww, -k, LastShift(k), <<0, 0>>)

\* the iteration orders cur_rows.items() can have
RowOrders(cs, ww) == Orders(DOMAIN RowBuckets(cs, ww))

----------------------------------------------------------------------------
(* emit_segments.py: emit_segment, the encoder *)

\* the aligned set of a frame: every pixel moved from (x, y) to (x - dx, y), kept if in the row
AlignedSet(S, dx, ww) ==
    {(idx \div ww) * ww + ((idx % ww) - dx) :
        idx \in {j \in S : 0 <= (j % ww) - dx /\ (j % ww) - dx < ww}}

\* freq[idx]: the number of aligned sets that hold idx
Freq(aligned, idx) == Cardinality({k \in DOMAIN aligned : idx \in aligned[k]})

\* `base_threshold = int(base_frac * n)`
BaseThresholdStrict(bf, n) == ((bf[1] * n) \div bf[2]) + 1
BaseThreshold(bf, n) == (bf[1] * n) \div bf[2]

\* `set(idx for idx, c in freq.items() if c >= base_threshold)`
BasePixels(aligned, base_threshold) ==
    {idx \in UNION {aligned[k] : k \in DOMAIN aligned} : Freq(aligned, idx) >= base_threshold}

\* the base moved into the frame's coordinates: (x, y) -> (x + dx, y), kept if in the row
ShiftedBase(bp, dx, ww) ==
    {(idx \div ww) * ww + ((idx % ww) + dx) :
        idx \in {j \in bp : 0 <= (j % ww) + dx /\ (j % ww) + dx < ww}}

\* `sorted([(p * 4) for p in (cur - shifted_base)])`
Additions(cur, shifted_base) == Sorted({p * 4 : p \in cur \ shifted_base})

\* `sorted([(p * 4) for p in (shifted_base - cur)])`
RemovalsNone(cur, shifted_base) == <<>>
Removals(cur, shifted_base) == Sorted({p * 4 : p \in shifted_base \ cur})

\* `xxx_index.append(len(xxx_all))`, evaluated before `xxx_all.extend(items)`
StartIndexAfter(all, items) == Len(all) + Len(items)
StartIndex(all, items) == Len(all)

n_frames == Len(frames)

\* one iteration of `for i in range(1, n)`: align frame i to the reference
AlignFrame ==
    /\ pc = "align"
    /\ i < n_frames
    /\ \E order \in RowOrders(frames[i + 1], w) :
         LET r == best_horizontal_shift(frames[1], frames[i + 1], w, SegMaxShift, order)
         IN  /\ shifts' = [shifts EXCEPT ![i + 1] = r[1]]
             /\ aligned_sets' = Append(aligned_sets, AlignedSet(frames[i + 1], r[1], w))
    /\ i' = i + 1
    /\ UNCHANGED <<pc, w, h, notSeg, frames, base_frac, base_pixels, base_offsets,
                   additions_all, additions_index, additions_count,
                   removals_all, removals_index, removals_count>>

\* the frequency count, the threshold and base_offsets; the base_frac argument is read
\* here for the first time, so its value is drawn here
ComputeBase ==
    /\ pc = "align"
    /\ i >= n_frames
    /\ base_frac' \in BaseFracs
    /\ LET bp == BasePixels(aligned_sets, BaseThreshold(base_frac', n_frames))
       IN  /\ base_pixels' = bp
           /\ base_offsets' = Sorted({idx * 4 : idx \in bp})
    /\ pc' = "delta"
    /\ i' = 0
    /\ UNCHANGED <<w, h, notSeg, frames, shifts, aligned_sets,
                   additions_all, additions_index, additions_count,
                   removals_all, removals_index, removals_count>>

\* one iteration of `for i in range(n)`: the additions and removals of frame i
DeltaFrame ==
    /\ pc = "delta"
    /\ i < n_frames
    /\ LET shifted_base == ShiftedBase(base_pixels, shifts[i + 1], w)
           cur == frames[i + 1]
           additions == Additions(cur, shifted_base)
           removals == Removals(cur, shifted_base)
       IN  /\ additions_index' = Append(additions_index, StartIndex(additions_all, additions))
           /\ additions_count' = Append(additions_count, Len(additions))
           /\ additions_all' = additions_all \o additions
           /\ removals_index' = Append(removals_index, StartIndex(removals_all, removals))
           /\ removals_count' = Append(removals_count, Len(removals))
           /\ removals_all' = removals_all \o removals
    /\ i' = i + 1
    /\ UNCHANGED <<pc, w, h, notSeg, frames, base_frac, shifts, aligned_sets,
                   base_pixels, base_offsets>>

\* the tables are written to segment_NNN.asm
WriteSegment ==
    /\ pc = "delta"
    /\ i >= n_frames
    /\ pc' = "emitted"
    /\ UNCHANGED <<w, h, notSeg, segVars>>

----------------------------------------------------------------------------
(* stand-alone calls of best_horizontal_shift *)

CallShift ==
    /\ pc = "call"
    /\ \E order \in RowOrders(cur_set, w) :
         result' = best_horizontal_shift(prev_set, cur_set, w, max_shift, order)
    /\ pc' = "returned"
    /\ UNCHANGED <<w, h, prev_set, cur_set, max_shift, result2, notCall>>

\* the same call once more
CallShiftAgain ==
    /\ pc = "returned"
    /\ \E order \in RowOrders(cur_set, w) :
         result2' = best_horizontal_shift(prev_set, cur_set, w, max_shift, order)
    /\ pc' = "returned2"
    /\ UNCHANGED <<w, h, prev_set, cur_set, max_shift, result, notCall>>

----------------------------------------------------------------------------
(* Specification of emit_segments.py *)

CallIdle ==
    /\ prev_set = {} /\ cur_set = {} /\ max_shift = 0
    /\ result = <<0, 0>> /\ result2 = <<0, 0>>

SegIdle ==
    /\ frames = <<>> /\ base_frac = NotRead /\ i = 0
    /\ shifts = <<>> /\ aligned_sets = <<>>
    /\ base_pixels = {} /\ base_offsets = <<>>
    /\ additions_all = <<>> /\ additions_index = <<>> /\ additions_count = <<>>
    /\ removals_all = <<>> /\ removals_index = <<>> /\ removals_count = <<>>

RleIdle ==
    /\ raster = <<>> /\ threshold = 128
    /\ rows = <<>> /\ total_black = 0 /\ row = 0 /\ rle_set = {}

PackIdle ==
    /\ bp_frames = <<>> /\ frames_data = <<>>
    /\ reg = [r \in 0 .. 12 |-> 0]
    /\ screen = {} /\ stored = {}

\* analyze_masks' locals before the loop (analyze_masks.py:68-73); None is <<>>
NoAcc == [total_black |-> 0, total_diff |-> 0, shift_matches |-> 0, prev_set |-> <<>>]
NoStats == [frames |-> <<>>, summary |-> <<>>]

MainIdle ==
    /\ prog = "" /\ files = <<>> /\ segment_size = 0 /\ file_i = 0
    /\ acc = NoAcc /\ stats = NoStats
    /\ out_files = {} /\ exit_status = <<>>

RunIdle ==
    /\ sreg = [r \in 0 .. 20 |-> 0]
    /\ mem = <<>> /\ cells = <<>> /\ base_cells = {}

InitCall ==
    /\ pc = "call"
    /\ \E d \in CallDims : w = d[1] /\ h = d[2]
    /\ prev_set \in SUBSET Pixels(w, h)
    /\ cur_set \in SUBSET Pixels(w, h)
    /\ max_shift \in 0 .. MaxK
    /\ result = <<0, 0>> /\ result2 = <<0, 0>>
    /\ SegIdle
    /\ RleIdle
    /\ PackIdle
    /\ MainIdle
    /\ RunIdle

\* emit_segment after the frames are loaded and shifts, aligned_sets are set up
InitSegment ==
    /\ pc = "align"
    /\ \E d \in SegDims : w = d[1] /\ h = d[2]
    /\ \E n \in 1 .. MaxN : frames \in [1 .. n -> SUBSET Pixels(w, h)]
    /\ base_frac = NotRead
    /\ i = 1
    /\ shifts = [k \in 1 .. Len(frames) |-> 0]
    /\ aligned_sets = <<frames[1]>>
    /\ base_pixels = {} /\ base_offsets = <<>>
    /\ additions_all = <<>> /\ additions_index = <<>> /\ additions_count = <<>>
    /\ removals_all = <<>> /\ removals_index = <<>> /\ removals_count = <<>>
    /\ CallIdle
    /\ RleIdle
    /\ PackIdle
    /\ MainIdle
    /\ RunIdle

Init == InitCall \/ InitSegment

Next ==
    \/ CallShift
    \/ CallShiftAgain
    \/ AlignFrame
    \/ ComputeBase
    \/ DeltaFrame
    \/ WriteSegment

Spec == Init /\ [][Next]_vars

----------------------------------------------------------------------------
(* Properties of emit_segments.py, checked under Spec *)

SeqRange(s) == {s[k] : k \in DOMAIN s}

\* the pixels of the slice data[start .. start + count) of byte offsets
SlicePixels(data, start, count) == {data[k] \div 4 : k \in (start + 1) .. (start + count)}

\* the base pixels (base_offsets / 4) translated (x, y) -> (x + shifts[f], y), kept if 0 <= x < w
ReplayBase(f) ==
    {p \in Pixels(w, h) :
        \E o \in SeqRange(base_offsets) :
            /\ (o \div 4) \div w = p \div w
            /\ ((o \div 4) % w) + shifts[f] = p % w}

ReplayFrame(f) ==
    (ReplayBase(f) \cup SlicePixels(additions_all, additions_index[f], additions_count[f]))
        \ SlicePixels(removals_all, removals_index[f], removals_count[f])

\* C1: for every frame of a segment, the shifted base plus the frame's slice of
\* additions_data minus its slice of removals_data is exactly the frame's pixel set.
C1_DeltaReplay ==
    \A f \in DOMAIN additions_index :
        /\ f \in DOMAIN removals_index
        /\ (pc = "emitted" => Len(additions_index) = n_frames)
        /\ ReplayFrame(f) = frames[f]

\* a written segment with a frame that is shifted and has both additions and removals
C1_Witness ==
    /\ pc = "emitted"
    /\ \E f \in DOMAIN frames :
         shifts[f] # 0 /\ additions_count[f] > 0 /\ removals_count[f] > 0

CsrConsistent(data, index, count) ==
    /\ Len(index) = Len(count)
    /\ SumSeq(count) = Len(data)
    /\ \A f \in DOMAIN index : index[f] = SumSeq(SubSeq(count, 1, f - 1))

\* C4: the additions and the removals tables are consistent CSR tables: one index and
\* one count entry per frame, sum(count) = len(data), index[f] = sum(count[0..f)).
C4_CsrConsistency ==
    /\ CsrConsistent(additions_all, additions_index, additions_count)
    /\ CsrConsistent(removals_all, removals_index, removals_count)
    /\ pc = "delta" => Len(additions_index) = i /\ Len(removals_index) = i
    /\ pc = "emitted" => Len(additions_index) = n_frames /\ Len(removals_index) = n_frames

\* a written segment whose last frame has removals that start at a non-zero index
C4_Witness ==
    /\ pc = "emitted"
    /\ n_frames >= 2
    /\ removals_index[n_frames] > 0 /\ removals_count[n_frames] > 0

\* overlap(dx) as the claim states it: the target pixels that land, moved by -dx inside
\* their row, on a reference pixel
OverlapAt(ref, target, ww, dx) ==
    Cardinality({p \in target :
        /\ 0 <= (p % ww) - dx
        /\ (p % ww) - dx < ww
        /\ (p \div ww) * ww + (p % ww) - dx \in ref})

MaxOverlap(ref, target, ww, k) ==
    CHOOSE m \in {OverlapAt(ref, target, ww, dx) : dx \in -k .. k} :
        \A dx \in -k .. k : OverlapAt(ref, target, ww, dx) <= m

\* C5: the returned overlap is the maximum of overlap(dx) over [-k, k] and dx is the
\* smallest displacement attaining it; when the maximum is 0 the result is (0, 0).
C5_BestShift ==
    pc \in {"returned", "returned2"} =>
        LET m == MaxOverlap(prev_set, cur_set, w, max_shift)
        IN  /\ result[2] = m
            /\ m > 0 => result[1] = Min({dx \in -max_shift .. max_shift :
                                            OverlapAt(prev_set, cur_set, w, dx) = m})
            /\ m = 0 => result = <<0, 0>>

\* a call where two displacements tie for the maximum and the smaller, non-zero one wins
C5_Witness ==
    /\ pc = "returned"
    /\ result[2] > 0
    /\ result[1] # 0
    /\ \E dx \in -max_shift .. max_shift :
         dx > result[1] /\ OverlapAt(prev_set, cur_set, w, dx) = result[2]

\* C6: best_horizontal_shift never returns |dx| > max_shift, a second call with the same
\* inputs returns the same pair whatever the iteration order of the row dict, and a
\* segment's shifts are within 64 with shifts[0] = 0.
C6_ShiftBound ==
    /\ pc \in {"returned", "returned2"} => Abs(result[1]) <= max_shift
    /\ pc = "returned2" => result2 = result
    /\ \A f \in DOMAIN shifts : Abs(shifts[f]) <= 64
    /\ shifts # <<>> => shifts[1] = 0

\* two calls that returned the bound itself although a larger displacement overlaps more
C6_Witness ==
    /\ pc = "returned2"
    /\ max_shift >= 1
    /\ Abs(result[1]) = max_shift
    /\ \E dx \in -(w - 1) .. (w - 1) : OverlapAt(prev_set, cur_set, w, dx) > result[2]

Scenario4x1 ==
    /\ pc \in {"returned", "returned2"}
    /\ w = 4 /\ h = 1
    /\ prev_set = {1, 2} /\ cur_set = {2, 3}
    /\ max_shift = 2

\* C7 as stated: reference {(1,0),(2,0)}, target {(2,0),(3,0)}, 4x1, maxShift 2
\* gives dx = -1, overlap = 2.
C7_Original == Scenario4x1 => result = <<-1, 2>>

\* C7 amended: the same call gives dx = +1, overlap = 2.
C7_Scenario == Scenario4x1 => result = <<1, 2>>

C7_Witness == Scenario4x1 /\ pc = "returned"

IdenticalFrames == \A f \in DOMAIN frames : frames[f] = frames[1]

\* C8: a segment of identical frames gets shift 0 for every frame, a base equal to the
\* reference frame and no additions or removals, for every base_frac in (0, 1].
C8_IdenticalFrames ==
    (pc = "emitted" /\ IdenticalFrames) =>
        /\ \A f \in DOMAIN frames : shifts[f] = 0
        /\ base_pixels = frames[1]
        /\ SeqRange(base_offsets) = {4 * p : p \in frames[1]}
        /\ \A f \in DOMAIN frames : additions_count[f] = 0 /\ removals_count[f] = 0

\* a written segment of several identical, non-empty frames at base_frac = 0.9
C8_Witness ==
    /\ pc = "emitted"
    /\ n_frames >= 2
    /\ IdenticalFrames
    /\ frames[1] # {}
    /\ base_frac = <<9, 10>>

\* the frames that hold pixel p once translated by -shifts[f], out-of-row pixels dropped
FramesHolding(p) ==
    {f \in DOMAIN frames :
        \E q \in frames[f] : q \div w = p \div w /\ (q % w) - shifts[f] = p % w}

\* C9: every base pixel is present in at least base_frac * n of the aligned frames.
C9_BaseFraction ==
    pc \in {"delta", "emitted"} =>
        \A p \in base_pixels :
            Cardinality(FramesHolding(p)) * base_frac[2] >= base_frac[1] * n_frames

----------------------------------------------------------------------------
(* process_frames.py: mask_rle_from_image, and load_rle reading its record *)

\* frame sizes <<w, h>> of the rasters
RasterDims == {<<3, 2>>, <<4, 1>>}
\* luminance values of the rasters and the thresholds tried (128 is the default)
Lums == {0, 127, 128, 255}
Thresholds == {0, 128, 256}

\* `pix[x, y] >= threshold`
IsWhite(v, thr) == v >= thr

\* `pix[x, y] < threshold`
IsBlackOrEqual(v, thr) == v <= thr
IsBlack(v, thr) == v < thr

\* `while x < w and pix[x, y] >= threshold: x += 1`
RECURSIVE SkipWhite(_, _, _, _, _)
SkipWhite(pix, y, x, ww, thr) ==
    IF x < ww /\ IsWhite(pix[<<x, y>>], thr) THEN SkipWhite(pix, y, x + 1, ww, thr) ELSE x

\* `while x < w and pix[x, y] < threshold: x += 1`
RECURSIVE TakeBlack(_, _, _, _, _)
TakeBlack(pix, y, x, ww, thr) ==
    IF x < ww /\ IsBlack(pix[<<x, y>>], thr) THEN TakeBlack(pix, y, x + 1, ww, thr) ELSE x

\* the `while x < w` loop of one row from column x on, `runs` being the runs found so far
RECURSIVE ScanRow(_, _, _, _, _, _)
ScanRow(pix, y, x, ww, thr, runs) ==
    IF ~(x < ww) THEN runs
    ELSE LET start == SkipWhite(pix, y, x, ww, thr)
         IN  IF start >= ww THEN runs
             ELSE LET x2 == TakeBlack(pix, y, start, ww, thr)
                      length == x2 - start
                  IN  ScanRow(pix, y, x2, ww, thr, Append(runs, <<start, length>>))

RunLengths(runs) == [k \in DOMAIN runs |-> runs[k][2]]

\* load_rle: the pixels of row y, `range(start, start + length)` of every run
RowPixels(runs, y, ww) ==
    UNION {{y * ww + x : x \in runs[k][1] .. (runs[k][1] + runs[k][2] - 1)} : k \in DOMAIN runs}

\* one iteration of `for y in range(h)` of mask_rle_from_image
EncodeRow ==
    /\ pc = "encode"
    /\ row < h
    /\ LET runs == ScanRow(raster, row, 0, w, threshold, <<>>)
       IN  /\ rows' = Append(rows, runs)
           /\ total_black' = total_black + SumSeq(RunLengths(runs))
    /\ row' = row + 1
    /\ UNCHANGED <<pc, w, h, raster, threshold, rle_set, notRle>>

\* the record {'w', 'h', 'rows', 'black'} is returned and dumped; load_rle opens it
ReturnMask ==
    /\ pc = "encode"
    /\ ~(row < h)
    /\ pc' = "load"
    /\ row' = 0
    /\ UNCHANGED <<w, h, raster, threshold, rows, total_black, rle_set, notRle>>

\* one iteration of `for y, runs in enumerate(rows)` of load_rle
LoadRow ==
    /\ pc = "load"
    /\ row < Len(rows)
    /\ rle_set' = rle_set \cup RowPixels(rows[row + 1], row, w)
    /\ row' = row + 1
    /\ UNCHANGED <<pc, w, h, raster, threshold, rows, total_black, notRle>>

\* load_rle returns (w, h, s)
LoadReturn ==
    /\ pc = "load"
    /\ ~(row < Len(rows))
    /\ pc' = "loaded"
    /\ UNCHANGED <<w, h, rleVars, notRle>>

InitRle ==
    /\ pc = "encode"
    /\ \E d \in RasterDims : w = d[1] /\ h = d[2]
    /\ raster \in [(0 .. w - 1) \X (0 .. h - 1) -> Lums]
    /\ threshold \in Thresholds
    /\ rows = <<>> /\ total_black = 0 /\ row = 0 /\ rle_set = {}
    /\ CallIdle
    /\ SegIdle
    /\ PackIdle
    /\ MainIdle
    /\ RunIdle

NextRle ==
    \/ EncodeRow
    \/ ReturnMask
    \/ LoadRow
    \/ LoadReturn

SpecRle == InitRle /\ [][NextRle]_vars

----------------------------------------------------------------------------
(* Properties of the RLE encoder and decoder, checked under SpecRle *)

BelowThreshold == {y * w + x : <<x, y>> \in {q \in DOMAIN raster : raster[q] < threshold}}

WellFormedRuns(runs) ==
    /\ \A k \in DOMAIN runs :
         /\ runs[k][2] >= 1
         /\ 0 <= runs[k][1]
         /\ runs[k][1] + runs[k][2] <= w
    /\ \A k \in DOMAIN runs : k > 1 => runs[k - 1][1] + runs[k - 1][2] <= runs[k][1]

\* C3: load_rle of the rows made by mask_rle_from_image is exactly the set of pixels below
\* the threshold; there are h rows of well-formed runs (length >= 1, inside the row,
\* sorted, not overlapping) and 'black' is the size of the decoded set.
C3_RleRoundTrip ==
    /\ pc \in {"load", "loaded"} =>
         /\ Len(rows) = h
         /\ \A y \in DOMAIN rows : WellFormedRuns(rows[y])
    /\ pc = "loaded" =>
         /\ rle_set = BelowThreshold
         /\ total_black = Cardinality(rle_set)

\* a decoded raster with a row of two runs, and a pixel whose luminance is the threshold
C3_Witness ==
    /\ pc = "loaded"
    /\ \E y \in DOMAIN rows : Len(rows[y]) >= 2
    /\ \E q \in DOMAIN raster : raster[q] = threshold
    /\ \E q \in DOMAIN raster : raster[q] < threshold /\ q[1] = w - 1

----------------------------------------------------------------------------
(* emit_bitpacked.py: pack_frame, emit_segment_bitpacked and the emitted program *)

\* most pixels in a bit-packed segment, frames * w * h
MaxCells == 9
\* frame sizes <<w, h>> of the bit-packed segments
PackDims == {<<3, 1>>, <<2, 2>>, <<3, 3>>, <<5, 2>>}
\* the bytes a load outside the emitted data may find
OtherMemory == {0, 255}

\* addresses are kept as offsets: data addresses from the label frames_data, screen
\* addresses from .PixelScreen
FramesDataLabel == 0
PixelScreen == 0

\* `bit_idx = 7 - (i % 8)`
BitIdxLsbFirst(k) == k % 8
BitIdx(k) == 7 - (k % 8)

\* whether bit b of a byte is set
BitSet(byte, b) == (byte \div (2 ^ b)) % 2 = 1

\* `out[byte_idx] |= (1 << bit_idx)`
OrBit(byte, b) == IF BitSet(byte, b) THEN byte ELSE byte + 2 ^ b

\* the `for i in range(total)` loop of pack_frame from i = k on
RECURSIVE PackLoop(_, _, _, _)
PackLoop(bitset, total, k, out) ==
    IF k >= total THEN out
    ELSE LET byte_idx == k \div 8
             bit_idx == BitIdx(k)
         IN  PackLoop(bitset, total, k + 1,
                      IF k \in bitset
                      THEN [out EXCEPT ![byte_idx + 1] = OrBit(@, bit_idx)]
                      ELSE out)

pack_frame(bitset, ww, hh) ==
    LET total == ww * hh
    IN  PackLoop(bitset, total, 0, [k \in 1 .. ((total + 7) \div 8) |-> 0])

\* `bytes_per_frame = (w * h + 7) // 8`
bytes_per_frame == (w * h + 7) \div 8

\* the `.BYTE` lines: the packed frames one after the other
RECURSIVE PackedFrames(_, _, _, _)
PackedFrames(fs, k, ww, hh) ==
    IF k > Len(fs) THEN <<>>
    ELSE pack_frame(fs[k], ww, hh) \o PackedFrames(fs, k + 1, ww, hh)

\* register arithmetic; the registers are 32 bits wide and no value of the program
\* comes near 2^32 (the largest is frame index * 1536 plus a byte index), so nothing wraps
Lsl(v, k) == v * (2 ^ k)
Lsr(v, k) == v \div (2 ^ k)
Add(a, b) == a + b

RECURSIVE AndBits(_, _, _)
AndBits(a, b, nbits) ==
    IF nbits = 0 THEN 0
    ELSE (IF a % 2 = 1 /\ b % 2 = 1 THEN 1 ELSE 0) + 2 * AndBits(a \div 2, b \div 2, nbits - 1)

\* the frame offset computed at frame_loop: (R5 << 9) + ((R5 << 9) << 1)
FrameOffset(r5) == Add(Lsl(r5, 9), Lsl(Lsl(r5, 9), 1))

\* the emitter writes the program and the data
EmitBitpacked ==
    /\ pc = "emit"
    /\ frames_data' = PackedFrames(bp_frames, 1, w, h)
    /\ pc' = "start"
    /\ UNCHANGED <<w, h, bp_frames, reg, screen, stored, notPack>>

\* MOV R0 .. MOV R5
Start ==
    /\ pc = "start"
    /\ reg' = [reg EXCEPT ![0] = 0, ![1] = PixelScreen, ![2] = FramesDataLabel,
                          ![3] = Len(bp_frames), ![4] = bytes_per_frame, ![5] = 0]
    /\ pc' = "frame_loop"
    /\ UNCHANGED <<w, h, bp_frames, frames_data, screen, stored, notPack>>

\* frame_loop: the data pointer R6, then R10 = 0 and R7 = 0
FrameLoop ==
    /\ pc = "frame_loop"
    /\ reg' = [reg EXCEPT ![6] = Add(FrameOffset(reg[5]), reg[2]), ![7] = 0, ![10] = 0]
    /\ stored' = {}
    /\ pc' = "byte_loop"
    /\ UNCHANGED <<w, h, bp_frames, frames_data, screen, notPack>>

\* the bytes LDRB R8, [R6] can load
LoadByte(addr) ==
    LET off == addr - FramesDataLabel
    IN  IF 0 <= off /\ off < Len(frames_data) THEN {frames_data[off + 1]} ELSE OtherMemory

\* byte_loop: LDRB, CMP R8, #0, BEQ byte_skip, MOV R9, #0x80
ByteLoop ==
    /\ pc = "byte_loop"
    /\ \E b \in LoadByte(reg[6]) :
         IF b = 0
         THEN /\ reg' = [reg EXCEPT ![8] = b]
              /\ pc' = "byte_skip"
         ELSE /\ reg' = [reg EXCEPT ![8] = b, ![9] = 128]
              /\ pc' = "bit_loop"
    /\ UNCHANGED <<w, h, bp_frames, frames_data, screen, stored, notPack>>

\* bit_loop: AND, CMP R11, #0, BEQ bit_skip, else the store at PixelScreen + 4 * R10
BitLoop ==
    /\ pc = "bit_loop"
    /\ LET r11 == AndBits(reg[8], reg[9], 8)
           r12 == Add(Lsl(reg[10], 2), reg[1])
       IN  IF r11 = 0
           THEN /\ reg' = [reg EXCEPT ![11] = r11]
                /\ UNCHANGED <<screen, stored>>
           ELSE /\ reg' = [reg EXCEPT ![11] = r11, ![12] = r12]
                /\ screen' = screen \cup {r12 - PixelScreen}
                /\ stored' = stored \cup {(r12 - PixelScreen) \div 4}
    /\ pc' = "bit_skip"
    /\ UNCHANGED <<w, h, bp_frames, frames_data, notPack>>

\* bit_skip: LSR R9, ADD R10, CMP R9, #0, BNE bit_loop
BitSkip ==
    /\ pc = "bit_skip"
    /\ reg' = [reg EXCEPT ![9] = Lsr(reg[9], 1), ![10] = Add(reg[10], 1)]
    /\ pc' = IF Lsr(reg[9], 1) # 0 THEN "bit_loop" ELSE "byte_skip"
    /\ UNCHANGED <<w, h, bp_frames, frames_data, screen, stored, notPack>>

\* byte_skip: ADD R6, ADD R7, CMP R7, R4, BLT byte_loop
ByteSkip ==
    /\ pc = "byte_skip"
    /\ reg' = [reg EXCEPT ![6] = Add(reg[6], 1), ![7] = Add(reg[7], 1)]
    /\ pc' = IF Add(reg[7], 1) < reg[4] THEN "byte_loop" ELSE "frame_end"
    /\ UNCHANGED <<w, h, bp_frames, frames_data, screen, stored, notPack>>

\* ADD R5, CMP R5, R3, BLT frame_loop, HALT
FrameEnd ==
    /\ pc = "frame_end"
    /\ reg' = [reg EXCEPT ![5] = Add(reg[5], 1)]
    /\ pc' = IF Add(reg[5], 1) < reg[3] THEN "frame_loop" ELSE "halt"
    /\ UNCHANGED <<w, h, bp_frames, frames_data, screen, stored, notPack>>

\* emit_segment_bitpacked after the frames are loaded
InitBitpack ==
    /\ pc = "emit"
    /\ \E d \in PackDims : w = d[1] /\ h = d[2]
    /\ \E n \in 1 .. MaxCells :
         /\ n * w * h <= MaxCells
         /\ bp_frames \in [1 .. n -> SUBSET Pixels(w, h)]
    /\ frames_data = <<>>
    /\ reg = [r \in 0 .. 12 |-> 0]
    /\ screen = {} /\ stored = {}
    /\ CallIdle
    /\ SegIdle
    /\ RleIdle
    /\ MainIdle
    /\ RunIdle

NextBitpack ==
    \/ EmitBitpacked
    \/ Start
    \/ FrameLoop
    \/ ByteLoop
    \/ BitLoop
    \/ BitSkip
    \/ ByteSkip
    \/ FrameEnd

SpecBitpack == InitBitpack /\ [][NextBitpack]_vars

----------------------------------------------------------------------------
(* Properties of emit_bitpacked.py, checked under SpecBitpack *)

\* ceil(w * h / 8)
CeilBytes == CHOOSE c \in 0 .. (w * h) : 8 * c >= w * h /\ 8 * (c - 1) < w * h

\* the emitted buffer of frame f (1-based)
FrameBuffer(f) == SubSeq(frames_data, (f - 1) * CeilBytes + 1, f * CeilBytes)

\* pixel p is on iff bit 7 - (p mod 8) of byte p div 8 is set
Unpacked(buf) == {p \in 0 .. (w * h - 1) : (buf[(p \div 8) + 1] \div (2 ^ (7 - (p % 8)))) % 2 = 1}

\* C2: every frame's buffer has ceil(w*h/8) bytes, unpacks MSB-first to exactly the
\* frame's on-pixel set, and has 0 in the padding bits beyond w*h.
C2_BitpackRoundTrip ==
    pc \in {"start", "frame_loop", "byte_loop", "bit_loop", "bit_skip", "byte_skip",
            "frame_end", "halt"} =>
        /\ Len(frames_data) = Len(bp_frames) * CeilBytes
        /\ \A f \in DOMAIN bp_frames :
             LET buf == pack_frame(bp_frames[f], w, h)
             IN  /\ Len(buf) = CeilBytes
                 /\ buf = FrameBuffer(f)
                 /\ \A k \in DOMAIN buf : buf[k] \in 0 .. 255
                 /\ Unpacked(buf) = bp_frames[f]
                 /\ \A p \in (w * h) .. (8 * CeilBytes - 1) :
                      (buf[(p \div 8) + 1] \div (2 ^ (7 - (p % 8)))) % 2 = 0

\* an emitted two-byte frame with several pixels in its first byte and one in its last
C2_Witness ==
    /\ pc = "start"
    /\ CeilBytes = 2
    /\ w * h < 16
    /\ {0, 1, 7, 8} \subseteq bp_frames[1]

\* C10: at the start of frame i's byte loop the data pointer R6 is
\* frames_data + i * bytes_per_frame.
C10_FramePointer ==
    (pc = "byte_loop" /\ reg[7] = 0) =>
        reg[6] = FramesDataLabel + reg[5] * CeilBytes

----------------------------------------------------------------------------
(* load_rle on an arbitrary mask record (emit_segments.py, analyze_masks.py,        *)
(* emit_bitpacked.py hold the same function)                                        *)

\* the <<w, h>> of the records read
RecordDims == {<<3, 1>>, <<2, 2>>, <<3, 2>>}
\* the runs <<start, length>> a record's row may hold, in and out of the row
RecordRuns(ww) == {<<s, l>> : s \in -1 .. ww, l \in 0 .. 2}
\* the rows of a record: no run, or one run
RecordRows(ww) == {<<>>} \cup {<<r>> : r \in RecordRuns(ww)}
\* the numbers of rows of the records read
RecordRowCounts == 1 .. 3

\* load_rle after json.load: data['w'], data['h'], data['rows'] are read, s is empty
InitLoad ==
    /\ pc = "load"
    /\ \E d \in RecordDims : w = d[1] /\ h = d[2]
    /\ \E n \in RecordRowCounts : rows \in [1 .. n -> RecordRows(w)]
    /\ raster = <<>> /\ threshold = 128
    /\ total_black = 0 /\ row = 0 /\ rle_set = {}
    /\ CallIdle
    /\ SegIdle
    /\ PackIdle
    /\ MainIdle
    /\ RunIdle

NextLoad ==
    \/ LoadRow
    \/ LoadReturn

SpecLoad == InitLoad /\ [][NextLoad]_vars

\* C11: load_rle returns no pixel set with an index outside [0, w*h): a record with a run
\* outside its row or with a number of rows other than h is not decoded into a set.
C11_LoadRleRejects ==
    pc = "loaded" =>
        /\ rle_set \subseteq Pixels(w, h)
        /\ Len(rows) = h
        /\ \A y \in DOMAIN rows :
             \A k \in DOMAIN rows[y] :
                 0 <= rows[y][k][1] /\ rows[y][k][1] + rows[y][k][2] <= w

----------------------------------------------------------------------------
(* The command-line programs: analyze_masks.py, main of emit_segments.py and of     *)
(* emit_bitpacked.py                                                                *)

\* largest number of mask files found in masks_dir
MaxFiles == 3
\* the <<w, h>> of the mask files
FileDims == {<<3, 1>>, <<1, 2>>}
\* values of --segment-size
SegmentSizes == {1, 2}
Emitters == {"emit_segments", "emit_bitpacked"}
Programs == {"analyze_masks"} \cup Emitters

\* max_shift of the call in analyze_masks
AnalyzeMaxShift == 32
\* the 0.7 of `overlap_frac >= 0.7`, as <<numerator, denominator>>
MatchFrac == <<7, 10>>

Max(S) == CHOOSE m \in S : \A e \in S : m >= e

\* a >= b for fractions <<numerator, denominator>> with positive denominators
FracGe(a, b) == a[1] * b[2] >= b[1] * a[2]

\* prev_set ^ cur_set
SymDiffOneSided(a, b) == a \ b
SymDiff(a, b) == (a \ b) \cup (b \ a)

\* `if not files`
NoFilesNever(fs) == FALSE
NoFiles(fs) == Len(fs) = 0

\* the programs after files = sorted(p.glob('frame_*.json')); w, h are the dimensions
\* the mask records carry
InitMain ==
    /\ pc = "main"
    /\ prog \in Programs
    /\ \E d \in FileDims : w = d[1] /\ h = d[2]
    /\ \E n \in 0 .. MaxFiles : files \in [1 .. n -> SUBSET Pixels(w, h)]
    /\ IF prog \in Emitters THEN segment_size \in SegmentSizes ELSE segment_size = 0
    /\ file_i = 0
    /\ acc = NoAcc /\ stats = NoStats
    /\ out_files = {} /\ exit_status = <<>>
    /\ CallIdle
    /\ SegIdle
    /\ RleIdle
    /\ PackIdle
    /\ RunIdle

\* `if not files: print(...); return 1`, the status going to exit()
NoMasks ==
    /\ pc = "main"
    /\ NoFiles(files)
    /\ exit_status' = <<1>>
    /\ pc' = "exit"
    /\ UNCHANGED <<w, h, notMain, prog, files, segment_size, file_i, acc, stats, out_files>>

\* analyze_masks: the locals are set up and the loop is entered
AnalyzeStart ==
    /\ pc = "main"
    /\ prog = "analyze_masks"
    /\ ~NoFiles(files)
    /\ acc' = NoAcc /\ stats' = NoStats
    /\ file_i' = 0
    /\ pc' = "analyze"
    /\ UNCHANGED <<w, h, notMain, prog, files, segment_size, out_files, exit_status>>

\* one pass of the loop over files; file_i counts the files done
AnalyzeFrame ==
    /\ pc = "analyze"
    /\ file_i < Len(files)
    /\ LET cur == files[file_i + 1]
           black == Cardinality(cur)
       IN  IF acc.prev_set = <<>>
           THEN /\ stats' = [stats EXCEPT !.frames = Append(@,
                        [frame |-> file_i + 1, black |-> black, diff |-> black,
                         best_dx |-> 0, best_overlap |-> 0, overlap_frac |-> <<0, 1>>])]
                /\ acc' = [acc EXCEPT !.total_black = @ + black, !.prev_set = <<cur>>]
           ELSE \E order \in RowOrders(cur, w) :
                LET prev == acc.prev_set[1]
                    diff == Cardinality(SymDiff(prev, cur))
                    r == best_horizontal_shift(prev, cur, w, AnalyzeMaxShift, order)
                    overlap_frac ==
                        <<r[2], Max({1, Max({Cardinality(prev), Cardinality(cur)})})>>
                IN  /\ stats' = [stats EXCEPT !.frames = Append(@,
                            [frame |-> file_i + 1, black |-> black, diff |-> diff,
                             best_dx |-> r[1], best_overlap |-> r[2],
                             overlap_frac |-> overlap_frac])]
                    /\ acc' = [acc EXCEPT
                            !.total_diff = @ + diff,
                            !.shift_matches =
                                IF FracGe(overlap_frac, MatchFrac) THEN @ + 1 ELSE @,
                            !.total_black = @ + black,
                            !.prev_set = <<cur>>]
    /\ file_i' = file_i + 1
    /\ UNCHANGED <<pc, w, h, notMain, prog, files, segment_size, out_files, exit_status>>

\* the summary and the stats file; total_black / n raises ZeroDivisionError when n = 0,
\* which ends the program with a traceback, status 1 and no file
WriteStats ==
    /\ pc = "analyze"
    /\ ~(file_i < Len(files))
    /\ LET n == Len(files)
       IN  IF n = 0
           THEN /\ exit_status' = <<1>>
                /\ UNCHANGED <<stats, out_files>>
           ELSE /\ stats' = [stats EXCEPT !.summary =
                        [count |-> n,
                         avg_black |-> <<acc.total_black, n>>,
                         avg_diff |-> <<acc.total_diff, Max({1, n - 1})>>,
                         shift_match_percent |-> <<100 * acc.shift_matches, Max({1, n - 1})>>,
                         width |-> w, height |-> h]]
                /\ out_files' = out_files \cup {<<"stats", 0, n>>}
                /\ exit_status' = <<0>>
    /\ pc' = "exit"
    /\ UNCHANGED <<w, h, notMain, prog, files, segment_size, file_i, acc>>

\* the emitters: os.makedirs(args.out_dir, exist_ok=True)
MakeDirs ==
    /\ pc = "main"
    /\ prog \in Emitters
    /\ ~NoFiles(files)
    /\ out_files' = out_files \cup {<<"out_dir", 0, 0>>}
    /\ file_i' = 0
    /\ pc' = "chunks"
    /\ UNCHANGED <<w, h, notMain, prog, files, segment_size, acc, stats, exit_status>>

\* one chunk: emit_segment / emit_segment_bitpacked writes segment_<seg_idx>.asm
\* holding the chunk's frames
EmitChunk ==
    /\ pc = "chunks"
    /\ file_i < Len(files)
    /\ LET chunk == SubSeq(files, file_i + 1, Min({file_i + segment_size, Len(files)}))
           seg_idx == file_i \div segment_size
       IN  out_files' = out_files \cup {<<"segment", seg_idx, Len(chunk)>>}
    /\ file_i' = file_i + segment_size
    /\ UNCHANGED <<pc, w, h, notMain, prog, files, segment_size, acc, stats, exit_status>>

\* `return 0` after the chunk loop
MainReturn ==
    /\ pc = "chunks"
    /\ ~(file_i < Len(files))
    /\ exit_status' = <<0>>
    /\ pc' = "exit"
    /\ UNCHANGED <<w, h, notMain, prog, files, segment_size, file_i, acc, stats, out_files>>

NextMain ==
    \/ NoMasks
    \/ AnalyzeStart
    \/ AnalyzeFrame
    \/ WriteStats
    \/ MakeDirs
    \/ EmitChunk
    \/ MainReturn

SpecMain == InitMain /\ [][NextMain]_vars

\* stats and segment files written so far
OutputFiles == {f \in out_files : f[1] \in {"stats", "segment"}}

\* C12: with zero mask files the analyzer and both emitters end with status 1 and
\* write no stats file and no segment file; they never report success.
C12_EmptyInputFails ==
    Len(files) = 0 =>
        /\ OutputFiles = {}
        /\ exit_status # <<0>>
        /\ pc = "exit" => exit_status = <<1>>

C12_Witness ==
    /\ pc = "exit" /\ Len(files) = 0 /\ prog = "emit_bitpacked"
    /\ exit_status = <<1>> /\ out_files = {}

\* what the claim C13 expects of the fold over files[1 .. n]
BlackSum == SumSeq([k \in 1 .. Len(files) |-> Cardinality(files[k])])
DiffSum ==
    SumSeq([k \in 1 .. Len(files) - 1 |->
        Cardinality({p \in files[k] \cup files[k + 1] :
                        ~(p \in files[k] /\ p \in files[k + 1])})])
MatchingFrames ==
    {k \in 2 .. Len(files) :
        LET a == Cardinality(files[k - 1])
            b == Cardinality(files[k])
            larger == IF a >= b THEN a ELSE b
            den == IF larger >= 1 THEN larger ELSE 1
        IN  10 * MaxOverlap(files[k - 1], files[k], w, 32) >= 7 * den}

\* C13: for n >= 1 frames the analyzer ends with total_black = sum of |set_i|,
\* total_diff = sum over i >= 2 of |set_(i-1) symmetric-difference set_i|, shift_matches =
\* the number of frames i >= 2 with best_overlap / max(1, max(|set_(i-1)|, |set_i|)) >= 0.7
\* at max shift 32; frame 1 records diff = black, best_dx = 0, overlap_frac = 0; every
\* aggregate has a denominator of at least 1 (n, max(1, n-1)), a single frame gives
\* avg_diff = 0 and shift_match_percent = 0, and shift_match_percent is within [0, 100].
C13_AnalyzerAggregates ==
    (pc = "exit" /\ prog = "analyze_masks" /\ Len(files) >= 1) =>
        LET n == Len(files)
            first == stats.frames[1]
            s == stats.summary
        IN  /\ acc.total_black = BlackSum
            /\ acc.total_diff = DiffSum
            /\ acc.shift_matches = Cardinality(MatchingFrames)
            /\ Len(stats.frames) = n
            /\ first.black = Cardinality(files[1]) /\ first.diff = first.black
            /\ first.best_dx = 0 /\ first.best_overlap = 0 /\ first.overlap_frac[1] = 0
            /\ s.avg_black = <<BlackSum, n>>
            /\ s.avg_diff[1] = DiffSum /\ s.avg_diff[2] >= 1
            /\ s.avg_diff[2] = (IF n = 1 THEN 1 ELSE n - 1)
            /\ s.shift_match_percent[1] = 100 * Cardinality(MatchingFrames)
            /\ s.shift_match_percent[2] = s.avg_diff[2]
            /\ n = 1 => (s.avg_diff[1] = 0 /\ s.shift_match_percent[1] = 0)
            /\ 0 <= s.shift_match_percent[1]
            /\ s.shift_match_percent[1] <= 100 * s.shift_match_percent[2]
            /\ exit_status = <<0>> /\ <<"stats", 0, n>> \in out_files

\* three frames analysed, one of the two later frames a shift match, both differing
C13_Witness ==
    /\ pc = "exit" /\ prog = "analyze_masks" /\ Len(files) = 3
    /\ acc.shift_matches = 1 /\ acc.total_diff > 2
    /\ stats.frames[2].best_dx # 0

----------------------------------------------------------------------------
(* The program emit_segment writes (emit_segments.py:144-256), run after it is      *)
(* written.  Registers R0 .. R20 are taken as the 21 registers the text names;      *)
(* addresses of data are byte offsets from the start of .DATA, addresses of screen  *)
(* cells byte offsets from .PixelScreen.                                            *)

\* the start of the .DATA section
DataLabel == 0
\* the operand of `MOV R12, #0xFFFFFF`
White == 16777215
\* the operand of `MOV R0, #0x000000`
Black == 0

\* the .WORD lines in the order they are written
DataSection ==
    base_offsets \o shifts \o additions_all \o additions_index \o additions_count
        \o removals_all \o removals_index \o removals_count

\* the addresses the labels stand for
LblBaseOffsets == DataLabel
LblShifts == LblBaseOffsets + 4 * Len(base_offsets)
LblAdditionsData == LblShifts + 4 * Len(shifts)
LblAdditionsIndex == LblAdditionsData + 4 * Len(additions_all)
LblAdditionsCount == LblAdditionsIndex + 4 * Len(additions_index)
LblRemovalsData == LblAdditionsCount + 4 * Len(additions_count)
LblRemovalsIndex == LblRemovalsData + 4 * Len(removals_all)
LblRemovalsCount == LblRemovalsIndex + 4 * Len(removals_index)

\* LDR Rd, [Rn]: the word at a data address
LoadWord(addr) == mem[(addr - DataLabel) \div 4 + 1]

\* STR Rs, [R1+Rn]: the cell at byte offset `off` from .PixelScreen takes the colour
StoreCell(cs, off, colour) ==
    [o \in DOMAIN cs \cup {off} |-> IF o = off THEN colour ELSE cs[o]]

\* the program is assembled and loaded; the six MOVs before frame_loop
RunStart ==
    /\ pc = "emitted"
    /\ mem' = DataSection
    /\ sreg' = [sreg EXCEPT ![0] = Black, ![12] = White, ![1] = PixelScreen,
                            ![2] = LblBaseOffsets, ![3] = Len(base_offsets),
                            ![4] = LblShifts, ![5] = n_frames, ![6] = 0]
    /\ cells' = <<>> /\ base_cells' = {}
    /\ pc' = "frame_loop"
    /\ UNCHANGED <<w, h, notRun, segVars>>

\* frame_loop: the frame's shift in bytes, the screen cleared, the base pointer set up
SegFrameLoop ==
    /\ pc = "frame_loop"
    /\ LET r7 == Lsl(sreg[6], 2) + sreg[4]
           r8 == LoadWord(r7) * 4
       IN  sreg' = [sreg EXCEPT ![7] = r7, ![8] = r8, ![9] = sreg[2], ![10] = 0]
    /\ cells' = <<>> /\ base_cells' = {}
    /\ pc' = "base_loop"
    /\ UNCHANGED <<w, h, notRun, segVars, mem>>

\* base_loop: one load, one store, then the test at the bottom of the loop
BaseLoop ==
    /\ pc = "base_loop"
    /\ LET r11 == LoadWord(sreg[9]) + sreg[8]
           r10 == sreg[10] + 1
       IN  /\ sreg' = [sreg EXCEPT ![11] = r11, ![9] = sreg[9] + 4, ![10] = r10]
           /\ cells' = StoreCell(cells, sreg[1] + r11, sreg[0])
           /\ base_cells' = base_cells \cup {sreg[1] + r11}
           /\ pc' = IF r10 < sreg[3] THEN "base_loop" ELSE "additions"
    /\ UNCHANGED <<w, h, notRun, segVars, mem>>

\* the pointer into additions_data and the frame's additions count
AdditionsSetup ==
    /\ pc = "additions"
    /\ LET r13 == Lsl(sreg[6], 2)
           r12 == LblAdditionsIndex + r13
           r14 == Lsl(LoadWord(r12), 2)
           r18 == LblAdditionsCount + r13
       IN  sreg' = [sreg EXCEPT ![12] = r12, ![13] = r13, ![14] = r14,
                                ![15] = LblAdditionsData + r14, ![16] = 0,
                                ![18] = r18, ![19] = LoadWord(r18)]
    /\ pc' = "add_loop"
    /\ UNCHANGED <<w, h, notRun, segVars, mem, cells, base_cells>>

AddLoop ==
    /\ pc = "add_loop"
    /\ IF sreg[16] >= sreg[19]
       THEN /\ pc' = "add_done"
            /\ UNCHANGED <<sreg, cells>>
       ELSE LET r20 == LoadWord(sreg[15])
            IN  /\ sreg' = [sreg EXCEPT ![20] = r20, ![15] = sreg[15] + 4,
                                        ![16] = sreg[16] + 1]
                /\ cells' = StoreCell(cells, sreg[1] + r20, sreg[0])
                /\ pc' = "add_loop"
    /\ UNCHANGED <<w, h, notRun, segVars, mem, base_cells>>

\* add_done: the pointer into removals_data and the frame's removals count
RemovalsSetup ==
    /\ pc = "add_done"
    /\ LET r13 == Lsl(sreg[6], 2)
           r12 == LblRemovalsIndex + r13
           r14 == Lsl(LoadWord(r12), 2)
           r18 == LblRemovalsCount + r13
       IN  sreg' = [sreg EXCEPT ![12] = r12, ![13] = r13, ![14] = r14,
                                ![15] = LblRemovalsData + r14, ![16] = 0,
                                ![18] = r18, ![19] = LoadWord(r18)]
    /\ pc' = "rem_loop"
    /\ UNCHANGED <<w, h, notRun, segVars, mem, cells, base_cells>>

RemLoop ==
    /\ pc = "rem_loop"
    /\ IF sreg[16] >= sreg[19]
       THEN /\ pc' = "rem_done"
            /\ UNCHANGED <<sreg, cells>>
       ELSE LET r20 == LoadWord(sreg[15])
            IN  /\ sreg' = [sreg EXCEPT ![20] = r20, ![15] = sreg[15] + 4,
                                        ![16] = sreg[16] + 1]
                /\ cells' = StoreCell(cells, sreg[1] + r20, sreg[12])
                /\ pc' = "rem_loop"
    /\ UNCHANGED <<w, h, notRun, segVars, mem, base_cells>>

\* rem_done: the next frame, or HALT
SegFrameEnd ==
    /\ pc = "rem_done"
    /\ sreg' = [sreg EXCEPT ![6] = sreg[6] + 1]
    /\ pc' = IF sreg[6] + 1 < sreg[5] THEN "frame_loop" ELSE "halt"
    /\ UNCHANGED <<w, h, notRun, segVars, mem, cells, base_cells>>

NextSegRun ==
    \/ AlignFrame
    \/ ComputeBase
    \/ DeltaFrame
    \/ WriteSegment
    \/ RunStart
    \/ SegFrameLoop
    \/ BaseLoop
    \/ AdditionsSetup
    \/ AddLoop
    \/ RemovalsSetup
    \/ RemLoop
    \/ SegFrameEnd

SpecSegRun == InitSegment /\ [][NextSegRun]_vars

\* the byte offsets of the shifted base the encoder used for frame f (1-based)
ShiftedBaseCells(f) ==
    {4 * ((idx \div w) * w + (idx % w) + shifts[f]) :
        idx \in {j \in base_pixels : 0 <= (j % w) + shifts[f] /\ (j % w) + shifts[f] < w}}
BlackCells == {o \in DOMAIN cells : cells[o] = 0}

\* C14: for every frame the cells stored by base_loop are exactly the cells of the
\* encoder's shifted base (row-preserving, out-of-bounds pixels dropped, nothing when
\* the base is empty), and after the three passes the black cells are exactly the frame.
C14_BaseLoopCells ==
    /\ pc = "additions" => base_cells = ShiftedBaseCells(sreg[6] + 1)
    /\ pc = "rem_done" => BlackCells = {4 * p : p \in frames[sreg[6] + 1]}

\* C15: every store of rem_loop writes white: R12 holds 0xFFFFFF at each such store.
C15_RemovalsWhite ==
    (pc = "rem_loop" /\ sreg[16] < sreg[19]) => sreg[12] = 16777215

----------------------------------------------------------------------------
(* The pixel counter of the bit-unpacking loop (checked under SpecBitpack) *)

\* the bit (0 = MSB) the mask in R9 selects
BitPos(mask) == CHOOSE b \in 0 .. 7 : 2 ^ (7 - b) = mask

\* C16: whenever bit b of the j-th byte of a frame's buffer is examined the pixel
\* counter R10 equals 8*j + b, zero bytes included; hence within a frame a pixel p is
\* stored iff bit p of the frame's buffer is set (stated for the first frame, whose
\* data pointer starts at frames_data).
C16_PixelCounter ==
    /\ pc = "bit_loop" => reg[10] = 8 * reg[7] + BitPos(reg[9])
    /\ (pc = "frame_end" /\ reg[5] = 0) => stored = Unpacked(FrameBuffer(1))

====
